---- MODULE Spec2Model ----
(***************************************************************************)
(* Model of process_glb_files.py: the batch runner that discovers the GLB  *)
(* files of data/imports and sends each through three gltf-transform       *)
(* invocations (resize, webp, optimize), counting successes and failures.  *)
(*                                                                         *)
(* A file name is a sequence of one-character strings, so that pathlib's   *)
(* suffix, str.lower and the ordering of sorted() are computed rather than *)
(* assumed.  The external tool, the PATH lookup and the file system are the *)
(* environment: their outcomes are chosen nondeterministically.            *)
(***************************************************************************)
EXTENDS Integers, Sequences, FiniteSets, TLC

VARIABLES
    pc,          \* position of main(): Idle, Discovering, ProcessingFiles, Summarizing, Done, Aborted
    importsKind, \* what data/imports is: "missing", "dir" or "notdir" (a regular file)
    entries,     \* content of data/imports: records [name, file], file being is_file()
    stage,       \* each stage directory under data/exports: "absent", "dir", or
                 \* "blocked" when mkdir on it raises; only this run changes it
    glb_files,   \* main's glb_files: the sorted names returned by get_glb_files
    idx,         \* 1-based index of the file the for loop of main is at
    step,        \* position inside process_glb_file: "none", "mkdir", "resize", "webp", "optimize"
    waiting,     \* TRUE while subprocess.run blocks on the child it spawned
    running,     \* the external processes alive: <<file index, step>>
    successful,  \* main's counter
    failed,      \* main's counter
    exitCode,    \* process exit status, NoExit while the process is alive
    summary,     \* the printed summary, <<>> before it is printed
    calls,       \* log of run_command invocations, in order
    results,     \* value process_glb_file returned for file 1, 2, ...
    outputs,     \* paths written by successful tool runs
    created,     \* stage directories this run created
    mkdirRaised, \* files whose mkdir raised OSError
    started,     \* the files process_glb_file was called for, in order of the calls
    report,      \* what run_command printed for its latest invocation, and the
                 \* streams the child wrote something to
    trail        \* the values pc has taken, in order

vars == <<pc, importsKind, entries, stage, glb_files, idx, step, waiting, running,
          successful, failed, exitCode, summary, calls, results, outputs, created,
          mkdirRaised, started, report, trail>>

----------------------------------------------------------------------------
(* Bounds of the model. *)

\* largest number of entries in data/imports
MaxEntries == 2

\* exit statuses of the external tool range over 0..MaxReturnCode
MaxReturnCode == 1

\* exitCode while the process has not exited
NoExit == 0 - 1

----------------------------------------------------------------------------
(* File names. *)

\* code point of a character, as Python compares strings
Ord(c) ==
    CASE c = "." -> 46
      [] c = "B" -> 66
      [] c = "G" -> 71
      [] c = "L" -> 76
      [] c = "a" -> 97
      [] c = "b" -> 98
      [] c = "g" -> 103
      [] c = "l" -> 108
      [] c = "x" -> 120

\* the names data/imports may hold
NamePool ==
    { <<"a", ".", "g", "l", "b">>,
      <<"B", ".", "G", "L", "B">>,
      <<"b", ".", "G", "l", "b">>,
      <<"a", ".", "b", ".", "g", "l", "b">>,
      <<".", "g", "l", "b">>,
      <<"a", ".", "g", "l", "b", "x">>,
      <<"g", "l", "b">>,
      <<"a", ".", "g", "l", "b", ".">> }

\* str.lower on one character, without case folding
LowerCharExact(c) == c

\* str.lower on one character
LowerChar(c) ==
    CASE c = "B" -> "b"
      [] c = "G" -> "g"
      [] c = "L" -> "l"
      [] OTHER -> c

\* str.lower
Lower(s) == [i \in 1..Len(s) |-> LowerChar(s[i])]

\* str.rfind('.') as a 1-based index, 0 when there is no dot
RFindDot(name) ==
    LET dots == {i \in 1..Len(name) : name[i] = "."}
    IN  IF dots = {} THEN 0 ELSE CHOOSE i \in dots : \A j \in dots : j <= i

\* PurePath.suffix: the last dot and what follows it, unless the dot is the
\* first or the last character of the name
Suffix(name) ==
    LET i == RFindDot(name)
    IN  IF 1 < i /\ i < Len(name) THEN SubSeq(name, i, Len(name)) ELSE <<>>

\* the test of get_glb_files: is_file() and suffix.lower() == '.glb'
IsGlb(e) == e.file /\ Lower(Suffix(e.name)) = <<".", "g", "l", "b">>

\* a < b for two names, as Python orders str (and Path inside one directory)
RECURSIVE NameLess(_, _)
NameLess(a, b) ==
    IF a = <<>> THEN b # <<>>
    ELSE IF b = <<>> THEN FALSE
    ELSE IF Ord(Head(a)) # Ord(Head(b)) THEN Ord(Head(a)) < Ord(Head(b))
    ELSE NameLess(Tail(a), Tail(b))

\* insert name n into the ascending sequence s
RECURSIVE Insert(_, _)
Insert(n, s) ==
    IF s = <<>> THEN <<n>>
    ELSE IF NameLess(n, Head(s)) THEN <<n>> \o s
    ELSE <<Head(s)>> \o Insert(n, Tail(s))

\* sorted(glb_files)
RECURSIVE Sorted(_)
Sorted(s) == IF s = <<>> THEN <<>> ELSE Insert(Head(s), Sorted(Tail(s)))

\* the loop of get_glb_files over iterdir(), which yields the entries in the
\* arbitrary order `order`
RECURSIVE Collect(_)
Collect(order) ==
    IF order = <<>> THEN <<>>
    ELSE IF IsGlb(Head(order)) THEN <<Head(order).name>> \o Collect(Tail(order))
    ELSE Collect(Tail(order))

get_glb_files(order) == Sorted(Collect(order))

\* the orders in which iterdir() may yield the set S
Orderings(S) ==
    {o \in [1..Cardinality(S) -> S] : \A i, j \in 1..Cardinality(S) : i # j => o[i] # o[j]}

----------------------------------------------------------------------------
(* Paths, steps and stage directories. *)

Steps == {"resize", "webp", "optimize"}

Stages == {"resize", "webp", "draco"}

\* the stage directory a step writes to
StageOf(s) == CASE s = "resize" -> "resize" [] s = "webp" -> "webp" [] s = "optimize" -> "draco"

\* every stage writing to one directory
StepOutputOneDir(name, s) == <<"exports", "resize", name>>

\* resize_output, webp_output, draco_output
StepOutput(name, s) == <<"exports", StageOf(s), name>>

\* every command reading the original input file
StepInputOriginal(name, s) == <<"imports", name>>

\* the input path of each command
StepInput(name, s) ==
    CASE s = "resize" -> <<"imports", name>>
      [] s = "webp" -> StepOutput(name, "resize")
      [] s = "optimize" -> StepOutput(name, "webp")

\* the step order with webp and optimize exchanged
NextStepSwapped(s) ==
    CASE s = "resize" -> "optimize" [] s = "optimize" -> "webp" [] s = "webp" -> "return"

\* the statement that follows a successful step in process_glb_file
NextStep(s) ==
    CASE s = "resize" -> "webp" [] s = "webp" -> "optimize" [] s = "optimize" -> "return"

\* a pre-flight check that always passes
ImportsExistsAlways(kind) == TRUE

\* imports_dir.exists()
ImportsExists(kind) == kind # "missing"

\* the two streams subprocess.run captures
Streams == {"stdout", "stderr"}

\* nothing printed yet
NoReport ==
    [command |-> FALSE, success |-> FALSE, returncode |-> NoExit, notfound |-> FALSE,
     printed |-> {}, captured |-> {}]

\* run_command, lines 29-30: the description and the command, printed before
\* the child is started
CommandReport == [NoReport EXCEPT !.command = TRUE]

\* run_command, lines 39-41: the success line, and stdout when it is not empty
SuccessReport(cap) ==
    [CommandReport EXCEPT !.success = TRUE, !.printed = cap \cap {"stdout"}, !.captured = cap]

\* a failure report that leaves out the return code
FailureReportNoCode(rc, cap) ==
    [CommandReport EXCEPT !.printed = cap, !.captured = cap]

\* run_command, lines 44-49: the error line, the return code, and each of
\* stdout and stderr that is not empty
FailureReport(rc, cap) ==
    [CommandReport EXCEPT !.returncode = rc, !.printed = cap, !.captured = cap]

\* run_command, lines 51-52: the message that gltf-transform was not found
NotFoundReport == [CommandReport EXCEPT !.notfound = TRUE]

\* the external tool, as process_glb_file relies on it: the output path given
\* on the command line is written when, and only when, the tool exits 0
ToolWrote(rc) == rc = 0

\* check=False: the return code is not looked at
StepSucceededAlways(rc) == TRUE

\* check=True: CalledProcessError unless the return code is 0
StepSucceeded(rc) == rc = 0

\* Path.mkdir without exist_ok: FileExistsError on an existing directory
MkdirNoExistOk(st, d) ==
    IF st[d] \in {"blocked", "dir"}
    THEN [stage |-> st, raised |-> TRUE]
    ELSE [stage |-> [st EXCEPT ![d] = "dir"], raised |-> FALSE]

\* Path.mkdir(parents=True, exist_ok=True) on stage directory d: the directories
\* after the call and whether it raised OSError
Mkdir(st, d) ==
    IF st[d] = "blocked"
    THEN [stage |-> st, raised |-> TRUE]
    ELSE [stage |-> [st EXCEPT ![d] = "dir"], raised |-> FALSE]

\* the three mkdir calls of process_glb_file, in order; the first that raises
\* ends the function
MkdirAll(st) ==
    LET r1 == Mkdir(st, "resize")
        r2 == Mkdir(r1.stage, "webp")
    IN  IF r1.raised THEN r1
        ELSE IF r2.raised THEN r2
        ELSE Mkdir(r2.stage, "draco")

\* a loop that processes the same file again
NextIndexSame(i) == i

\* the for loop of main moves from file i to the next file of glb_files
NextIndex(i) == i + 1

\* a loop that stops at the first failed file
LoopContinuesUntilFailure(ok, i, n) == ok /\ i < n

\* the for loop of main has another file after file i of n, whatever
\* process_glb_file returned
LoopContinues(ok, i, n) == i < n

\* a loop that does not count the failures
TallyFailedNever(ok, f) == f

\* counting every file as successful
TallySuccessfulAlways(ok, s) == s + 1

\* successful += 1 when process_glb_file returned True
TallySuccessful(ok, s) == IF ok THEN s + 1 ELSE s

\* failed += 1 when process_glb_file returned False
TallyFailed(ok, f) == IF ok THEN f ELSE f + 1

\* an exit status that ignores the failures
ExitStatusZero(f) == 0

\* the end of main: sys.exit(1) if failed > 0, else a normal return
ExitStatus(f) == IF f > 0 THEN 1 ELSE 0

\* sys.exit(1) when the imports directory is missing
MissingImportsExit == 1

\* sys.exit(0) when no GLB file was found
NoFilesExit == 0

\* an emptiness test that never holds
NoFilesNever(files) == FALSE

\* `if not glb_files`
NoFiles(files) == files = <<>>

----------------------------------------------------------------------------
(* The run. *)

Listings ==
    {L \in SUBSET [name : NamePool, file : BOOLEAN] :
        /\ Cardinality(L) <= MaxEntries
        /\ \A e1, e2 \in L : e1.name = e2.name => e1 = e2}

Init ==
    /\ pc = "Idle"
    /\ importsKind \in {"missing", "dir", "notdir"}
    /\ entries \in IF importsKind = "dir" THEN Listings ELSE {{}}
    /\ stage \in [Stages -> {"absent", "dir", "blocked"}]
    /\ glb_files = <<>>
    /\ idx = 0
    /\ step = "none"
    /\ waiting = FALSE
    /\ running = {}
    /\ successful = 0
    /\ failed = 0
    /\ exitCode = NoExit
    /\ summary = <<>>
    /\ calls = <<>>
    /\ results = <<>>
    /\ outputs = {}
    /\ created = {}
    /\ mkdirRaised = {}
    /\ started = <<>>
    /\ report = NoReport
    /\ trail = <<"Idle">>

\* pc moves to p
Goto(p) == pc' = p /\ trail' = Append(trail, p)

\* an exception nobody catches ends the process: traceback, exit status 1
Abort == Goto("Aborted") /\ exitCode' = 1

\* main, lines 116-120: the pre-flight check of the imports directory
CheckImports ==
    /\ pc = "Idle"
    /\ IF ImportsExists(importsKind)
       THEN Goto("Discovering") /\ exitCode' = exitCode
       ELSE Goto("Done") /\ exitCode' = MissingImportsExit
    /\ UNCHANGED <<report, importsKind, entries, stage, glb_files, idx, started, step, waiting, running,
                   successful, failed, summary, calls, results, outputs, created,
                   mkdirRaised>>

\* main, line 123, when data/imports cannot be listed (it is a regular file):
\* iterdir() raises OSError, which nothing catches
DiscoverRaises ==
    /\ pc = "Discovering"
    /\ importsKind # "dir"
    /\ Abort
    /\ UNCHANGED <<report, importsKind, entries, stage, glb_files, idx, started, step, waiting, running,
                   successful, failed, summary, calls, results, outputs, created,
                   mkdirRaised>>

\* main, lines 123-135: discovery, the exit on an empty list, the counters set
\* to 0 and the entry into the for loop
Discover ==
    /\ pc = "Discovering"
    /\ importsKind = "dir"
    /\ \E order \in Orderings(entries) :
         LET files == get_glb_files(order)
         IN  /\ glb_files' = files
             /\ IF NoFiles(files)
                THEN /\ Goto("Done")
                     /\ exitCode' = NoFilesExit
                     /\ UNCHANGED <<idx, started, step>>
                ELSE IF Len(files) >= 1
                THEN /\ Goto("ProcessingFiles")
                     /\ idx' = 1
                     /\ started' = Append(started, 1)
                     /\ step' = "mkdir"
                     /\ exitCode' = exitCode
                ELSE /\ Goto("Summarizing")
                     /\ exitCode' = exitCode
                     /\ UNCHANGED <<idx, started, step>>
    /\ successful' = 0
    /\ failed' = 0
    /\ UNCHANGED <<report, importsKind, entries, stage, waiting, running, summary, calls,
                   results, outputs, created, mkdirRaised>>

\* process_glb_file, lines 62-70, when every mkdir succeeds
EnsureDirs ==
    /\ pc = "ProcessingFiles"
    /\ step = "mkdir"
    /\ ~MkdirAll(stage).raised
    /\ stage' = MkdirAll(stage).stage
    /\ created' = created \cup {d \in Stages : stage[d] = "absent"}
    /\ step' = "resize"
    /\ UNCHANGED <<report, pc, importsKind, entries, glb_files, idx, started, waiting, running,
                   successful, failed, exitCode, summary, calls, results, outputs,
                   mkdirRaised, trail>>

\* process_glb_file, lines 68-70, when a mkdir raises OSError: the exception
\* leaves process_glb_file and main uncaught
EnsureDirsRaises ==
    /\ pc = "ProcessingFiles"
    /\ step = "mkdir"
    /\ MkdirAll(stage).raised
    /\ stage' = MkdirAll(stage).stage
    /\ created' = created \cup {d \in Stages : stage[d] = "absent" /\ stage'[d] = "dir"}
    /\ mkdirRaised' = mkdirRaised \cup {idx}
    /\ step' = "none"
    /\ Abort
    /\ UNCHANGED <<report, importsKind, entries, glb_files, idx, started, waiting, running,
                   successful, failed, summary, calls, results, outputs>>

\* the record of one run_command invocation
Call(st, rc) ==
    [file |-> idx, step |-> step,
     src |-> StepInput(glb_files[idx], step),
     dst |-> StepOutput(glb_files[idx], step),
     status |-> st, rc |-> rc]

\* main, lines 138-142 and the advance of the for loop, after process_glb_file
\* returned ok for the current file
FileReturn(ok) ==
    /\ results' = Append(results, ok)
    /\ successful' = TallySuccessful(ok, successful)
    /\ failed' = TallyFailed(ok, failed)
    /\ IF LoopContinues(ok, idx, Len(glb_files))
       THEN /\ idx' = NextIndex(idx)
            /\ started' = Append(started, NextIndex(idx))
            /\ step' = "mkdir"
            /\ UNCHANGED <<pc, trail>>
       ELSE /\ idx' = idx
            /\ started' = started
            /\ step' = "none"
            /\ Goto("Summarizing")

\* run_command, lines 33-38, started without waiting for the child: the caller
\* goes on as if the step had succeeded
SpawnNoWait ==
    /\ pc = "ProcessingFiles"
    /\ step \in Steps
    /\ ~waiting
    /\ running' = running \cup {<<idx, step>>}
    /\ calls' = Append(calls, Call("running", NoExit))
    /\ IF NextStep(step) = "return"
       THEN FileReturn(TRUE)
       ELSE /\ step' = NextStep(step)
            /\ UNCHANGED <<pc, trail, idx, started, results, successful, failed>>
    /\ report' = CommandReport
    /\ UNCHANGED <<importsKind, entries, stage, glb_files, waiting, exitCode, summary,
                   outputs, created, mkdirRaised>>

\* run_command, lines 33-38: subprocess.run starts the child and blocks on it
Spawn ==
    /\ pc = "ProcessingFiles"
    /\ step \in Steps
    /\ ~waiting
    /\ waiting' = TRUE
    /\ running' = running \cup {<<idx, step>>}
    /\ calls' = Append(calls, Call("running", NoExit))
    /\ report' = CommandReport
    /\ UNCHANGED <<pc, importsKind, entries, stage, glb_files, idx, started, step, successful,
                   failed, exitCode, summary, results, outputs, created, mkdirRaised,
                   trail>>

\* run_command returning True when the executable is not found
SpawnNotFoundIgnored ==
    /\ pc = "ProcessingFiles"
    /\ step \in Steps
    /\ ~waiting
    /\ calls' = Append(calls, Call("unavailable", NoExit))
    /\ IF NextStep(step) = "return"
       THEN FileReturn(TRUE)
       ELSE /\ step' = NextStep(step)
            /\ UNCHANGED <<pc, trail, idx, started, results, successful, failed>>
    /\ report' = NotFoundReport
    /\ UNCHANGED <<importsKind, entries, stage, glb_files, waiting, running, exitCode,
                   summary, outputs, created, mkdirRaised>>

\* run_command, lines 51-53: the executable is not found, FileNotFoundError is
\* caught and run_command returns False; process_glb_file returns False
SpawnNotFound ==
    /\ pc = "ProcessingFiles"
    /\ step \in Steps
    /\ ~waiting
    /\ calls' = Append(calls, Call("unavailable", NoExit))
    /\ FileReturn(FALSE)
    /\ report' = NotFoundReport
    /\ UNCHANGED <<importsKind, entries, stage, glb_files, waiting, running, exitCode,
                   summary, outputs, created, mkdirRaised>>

\* run_command, lines 33-53: the executable is found but cannot be started
\* (PermissionError, exec format error): an OSError no except clause matches
SpawnRaises ==
    /\ pc = "ProcessingFiles"
    /\ step \in Steps
    /\ ~waiting
    /\ calls' = Append(calls, Call("raised", NoExit))
    /\ step' = "none"
    /\ Abort
    /\ report' = CommandReport
    /\ UNCHANGED <<importsKind, entries, stage, glb_files, idx, started, waiting, running,
                   successful, failed, summary, results, outputs, created, mkdirRaised>>

\* run_command, lines 39-50, and the caller's test of its result: the child
\* exits with status rc
Complete ==
    /\ pc = "ProcessingFiles"
    /\ waiting
    /\ <<idx, step>> \in running
    /\ \E rc \in 0..MaxReturnCode, cap \in SUBSET Streams :
         /\ report' = IF StepSucceeded(rc) THEN SuccessReport(cap) ELSE FailureReport(rc, cap)
         /\ calls' = [calls EXCEPT ![Len(calls)] =
                        Call(IF StepSucceeded(rc) THEN "ok" ELSE "failed", rc)]
         /\ outputs' = IF ToolWrote(rc)
                       THEN outputs \cup {StepOutput(glb_files[idx], step)}
                       ELSE outputs
         /\ IF StepSucceeded(rc)
            THEN IF NextStep(step) = "return"
                 THEN FileReturn(TRUE)
                 ELSE /\ step' = NextStep(step)
                      /\ UNCHANGED <<pc, trail, idx, started, results, successful, failed>>
            ELSE FileReturn(FALSE)
    /\ waiting' = FALSE
    /\ running' = running \ {<<idx, step>>}
    /\ UNCHANGED <<importsKind, entries, stage, glb_files, exitCode, summary, created,
                   mkdirRaised>>

\* main, lines 144-155: the summary and the exit status
Summarize ==
    /\ pc = "Summarizing"
    /\ summary' = <<[total |-> Len(glb_files), successful |-> successful, failed |-> failed]>>
    /\ exitCode' = ExitStatus(failed)
    /\ Goto("Done")
    /\ UNCHANGED <<report, importsKind, entries, stage, glb_files, idx, started, step, waiting, running,
                   successful, failed, calls, results, outputs, created, mkdirRaised>>

Next ==
    \/ CheckImports
    \/ DiscoverRaises
    \/ Discover
    \/ EnsureDirs
    \/ EnsureDirsRaises
    \/ Spawn
    \/ SpawnNotFound
    \/ SpawnRaises
    \/ Complete
    \/ Summarize

Spec == Init /\ [][Next]_vars

\* every external process terminates, and the interpreter keeps running
FairSpec == Spec /\ WF_vars(Next)

----------------------------------------------------------------------------

(* Vocabulary of the properties. *)

K == Len(glb_files)

StepSeq == <<"resize", "webp", "optimize">>

\* the invocations made for file i, in order
CallsOf(i) == SelectSeq(calls, LAMBDA c : c.file = i)

\* step s of file i was invoked
Invoked(i, s) == \E j \in 1..Len(calls) : calls[j].file = i /\ calls[j].step = s

\* run_command returned False for a step of file i
StepFailed(i) ==
    \E j \in 1..Len(calls) : calls[j].file = i /\ calls[j].status \in {"failed", "unavailable"}

\* the three steps of file i were invoked and each exited with status 0
AllOk(i) ==
    \A s \in Steps : \E j \in 1..Len(calls) :
        calls[j].file = i /\ calls[j].step = s /\ calls[j].status = "ok" /\ calls[j].rc = 0

FailedFiles == {i \in 1..K : StepFailed(i)}

\* the summary was printed
Summarized == summary # <<>>

----------------------------------------------------------------------------
(* C1 *)

----------------------------------------------------------------------------
(* C2 *)

\* C2: a step failure never ends the run.  Whatever file i returned, success or
\* failure, the loop goes on to file i+1, whose pipeline is then at its mkdir
\* calls or at its resize step, or has had its resize step invoked; an
\* invocation that exited non-zero never leaves the run aborted; and a run that
\* reaches the summary has invoked resize for every discovered file.
C2_FailureDoesNotAbort ==
    /\ \A i \in 1..Len(results) :
         i < K =>
            /\ idx > i
            /\ \/ idx = i + 1 /\ step \in {"mkdir", "resize"} /\ pc = "ProcessingFiles"
               \/ Invoked(i + 1, "resize")
    /\ \A j \in 1..Len(calls) :
         calls[j].status = "failed" /\ j = Len(calls) =>
            /\ pc \in {"ProcessingFiles", "Summarizing", "Done"}
            /\ pc = "Done" => Summarized
    /\ (pc = "Summarizing" \/ Summarized) => \A i \in 1..K : Invoked(i, "resize")

\* the first file failed with a non-zero exit and the second file's resize was invoked
C2_Witness ==
    /\ K >= 2
    /\ \E j \in 1..Len(calls) : calls[j].file = 1 /\ calls[j].status = "failed" /\ calls[j].rc # 0
    /\ Invoked(2, "resize")

----------------------------------------------------------------------------
(* C3 *)

----------------------------------------------------------------------------
(* C4 *)

----------------------------------------------------------------------------
(* C5 *)

\* C5: when data/imports does not exist the run goes from Idle to Done with exit
\* status 1 and nothing else happens: no discovery, no file processed, no
\* invocation, no directory created.
C5_MissingImports ==
    importsKind = "missing" =>
        /\ pc \in {"Idle", "Done"}
        /\ pc = "Done" => exitCode = 1 /\ trail = <<"Idle", "Done">>
        /\ glb_files = <<>>
        /\ calls = <<>>
        /\ results = <<>>
        /\ running = {}
        /\ outputs = {}
        /\ created = {}

\* the run over a missing imports directory has ended, with stage directories still to create
C5_Witness ==
    /\ importsKind = "missing"
    /\ pc = "Done"
    /\ \E d \in Stages : stage[d] = "absent"

----------------------------------------------------------------------------
(* C6 *)

\* C6: when data/imports is a directory and discovery returns the empty list, the
\* run has gone Idle, Discovering, Done, with exit status 0, no invocation, no
\* summary and no directory created.
C6_NoFiles ==
    (importsKind = "dir" /\ pc \notin {"Idle", "Discovering"} /\ glb_files = <<>>) =>
        /\ pc = "Done"
        /\ exitCode = 0
        /\ trail = <<"Idle", "Discovering", "Done">>
        /\ calls = <<>>
        /\ ~Summarized
        /\ created = {}

\* the run ended over a directory that holds entries but no GLB file
C6_Witness ==
    /\ importsKind = "dir"
    /\ pc = "Done"
    /\ glb_files = <<>>
    /\ entries # {}

----------------------------------------------------------------------------
(* C7 *)

\* C7: a file whose output directories cannot be created is counted as failed,
\* none of its steps is invoked, and the run is not aborted.
C7_DirFailureIsolated ==
    \A i \in mkdirRaised :
        /\ pc # "Aborted"
        /\ Len(results) >= i
        /\ results[i] = FALSE
        /\ ~\E s \in Steps : Invoked(i, s)

----------------------------------------------------------------------------
(* C8 *)

\* C8: when the tool cannot be located or cannot be started for a step, the step
\* returns failure: the file is counted as failed, the step is the last of its
\* file, and the run is not aborted.
C8_ToolUnavailableIsolated ==
    \A j \in 1..Len(calls) :
        calls[j].status \in {"unavailable", "raised"} =>
            /\ pc # "Aborted"
            /\ Len(results) >= calls[j].file
            /\ results[calls[j].file] = FALSE
            /\ \A k \in (j+1)..Len(calls) : calls[k].file # calls[j].file

----------------------------------------------------------------------------
(* C9 *)

\* the spellings of the extension, whatever the case of its letters
GlbSpellings ==
    {<<".", g, l, b>> : g \in {"g", "G"}, l \in {"l", "L"}, b \in {"b", "B"}}

\* the name is a non-empty stem followed by ".glb" in some case
HasGlbExtension(n) ==
    Len(n) >= 5 /\ SubSeq(n, Len(n) - 3, Len(n)) \in GlbSpellings

\* a sorts before b: a is a proper prefix of b, or at the first position where
\* they differ a has the smaller code point
NameBefore(a, b) ==
    \/ Len(a) < Len(b) /\ \A i \in 1..Len(a) : a[i] = b[i]
    \/ \E k \in 1..Len(a) :
         /\ k <= Len(b)
         /\ \A i \in 1..(k-1) : a[i] = b[i]
         /\ Ord(a[k]) < Ord(b[k])

\* C9: once discovery has run over a directory, glb_files holds exactly the names
\* of the entries that are files and have the extension .glb in any case, each
\* once, in strictly ascending order of name.
C9_Discovery ==
    (importsKind = "dir" /\ pc \notin {"Idle", "Discovering"}) =>
        LET expected == {e.name : e \in {x \in entries : x.file /\ HasGlbExtension(x.name)}}
        IN  /\ {glb_files[i] : i \in 1..K} = expected
            /\ K = Cardinality(expected)
            /\ \A i \in 1..(K-1) : NameBefore(glb_files[i], glb_files[i+1])

\* discovery returned an upper-case name before a lower-case one
C9_Witness ==
    /\ pc \notin {"Idle", "Discovering"}
    /\ K = 2
    /\ glb_files[1] = <<"B", ".", "G", "L", "B">>
    /\ glb_files[2] = <<"a", ".", "g", "l", "b">>

----------------------------------------------------------------------------
(* C10 *)

\* C10: at most one external process is alive; every invocation but the latest
\* has completed; the invocations follow the discovery order, file i+1 being
\* touched only after process_glb_file has returned for file i; and the file
\* with index i is the i-th name of the sorted list.
C10_Sequential ==
    /\ Cardinality(running) <= 1
    /\ \A j \in 1..(Len(calls) - 1) :
         /\ calls[j].status # "running"
         /\ calls[j].file <= calls[j+1].file
    /\ \A j \in 1..Len(calls) :
         /\ Len(results) >= calls[j].file - 1
         /\ calls[j].dst[3] = glb_files[calls[j].file]
         /\ calls[j].status = "running" <=> <<calls[j].file, calls[j].step>> \in running
    /\ \A p \in running : \E j \in 1..Len(calls) : p = <<calls[j].file, calls[j].step>>

\* a step of the second file is running after the first file's steps completed
C10_Witness ==
    /\ K >= 2
    /\ running = {<<2, "webp">>}
    /\ Len(CallsOf(1)) = 3

----------------------------------------------------------------------------

(* C11 *)

\* C11: nothing is retried.  No two invocations of the run are for the same
\* file and step, process_glb_file is called at most once for each file, and a
\* run over K files makes at most 3 * K invocations.
C11_NoRetry ==
    /\ \A j, k \in 1..Len(calls) :
         (calls[j].file = calls[k].file /\ calls[j].step = calls[k].step) => j = k
    /\ \A j, k \in 1..Len(started) : started[j] = started[k] => j = k
    /\ \A j \in 1..Len(started) : started[j] \in 1..K
    /\ Len(calls) <= 3 * K

\* a finished run in which the first file failed at resize and the second went
\* through its three steps
C11_Witness ==
    /\ pc = "Done"
    /\ K = 2
    /\ Len(CallsOf(1)) = 1
    /\ CallsOf(1)[1].status = "failed"
    /\ Len(CallsOf(2)) = 3
    /\ started = <<1, 2>>

----------------------------------------------------------------------------

(* C12 *)

\* the statements of process_glb_file that ensure the output directories run
\* in this step
AtMkdir == pc = "ProcessingFiles" /\ step = "mkdir"

\* C12: ensuring the output directories is idempotent.  When the mkdir calls
\* return, the three stage directories exist, whatever existed before; when the
\* three already exist the calls raise nothing, create nothing and leave the
\* directories as they are; and a directory that exists is never removed.
C12_MkdirIdempotent ==
    [][ /\ (AtMkdir /\ step' = "resize") => \A d \in Stages : stage'[d] = "dir"
        /\ (AtMkdir /\ \A d \in Stages : stage[d] = "dir") =>
              /\ stage' = stage
              /\ created' = created
              /\ mkdirRaised' = mkdirRaised
              /\ pc' = "ProcessingFiles"
              /\ step' = "resize"
        /\ \A d \in Stages : stage[d] = "dir" => stage'[d] = "dir"
      ]_vars

\* the mkdir calls have returned for the second file, after the first file's
\* calls created a directory that was absent and found one that existed
C12_Witness ==
    /\ idx = 2
    /\ step = "resize"
    /\ created # {}
    /\ created # Stages
    /\ \A d \in Stages : stage[d] = "dir"

----------------------------------------------------------------------------

(* C13 *)

StageSeq == <<"resize", "webp", "draco">>

\* the outputs this run has written for file i
OutputsOf(i) == {p \in outputs : p[3] = glb_files[i]}

\* the k-th invocation of file i did not succeed: the tool exited non-zero or
\* was not found
FailedAt(i, k) ==
    /\ Len(CallsOf(i)) = k
    /\ \/ CallsOf(i)[k].status = "unavailable"
       \/ CallsOf(i)[k].rc \in 1..MaxReturnCode

\* C13: a file whose step k failed has an output written in exactly the stages
\* before k (a failed webp step: the resize stage only), and a file counted
\* successful has an output written in all three stages.
C13_StageOutputs ==
    \A i \in 1..Len(results) :
        IF results[i]
        THEN OutputsOf(i) = {<<"exports", d, glb_files[i]>> : d \in Stages}
        ELSE \E k \in 1..3 :
                /\ FailedAt(i, k)
                /\ OutputsOf(i) = {<<"exports", StageSeq[m], glb_files[i]>> : m \in 1..(k-1)}

\* a finished run: one file has outputs in the three stages, the other failed
\* at webp and has its resize output only
C13_Witness ==
    /\ pc = "Done"
    /\ \E i, j \in 1..K :
         /\ results[i]
         /\ Cardinality(OutputsOf(i)) = 3
         /\ FailedAt(j, 2)
         /\ CallsOf(j)[2].status = "failed"
         /\ OutputsOf(j) = {<<"exports", "resize", glb_files[j]>>}

----------------------------------------------------------------------------

(* C14 *)

\* invocation j reads the path that an earlier, successful invocation of step
\* s of the same file wrote in this run
ReadsOutputOf(j, s) ==
    \E k \in 1..(j-1) :
        /\ calls[k].file = calls[j].file
        /\ calls[k].step = s
        /\ calls[k].status = "ok"
        /\ calls[j].src = calls[k].dst
        /\ calls[j].src \in outputs

\* C14: the steps of a file are chained on paths.  resize reads
\* imports/<name> and writes exports/resize/<name>; webp reads the path resize
\* wrote and writes exports/webp/<name>; optimize reads the path webp wrote and
\* writes exports/draco/<name>; <name> is the name of the input file.
C14_PathChain ==
    \A j \in 1..Len(calls) :
        LET c == calls[j]
            name == glb_files[c.file]
        IN  /\ name \in {e.name : e \in entries}
            /\ c.step = "resize" =>
                 /\ c.src = <<"imports", name>>
                 /\ c.dst = <<"exports", "resize", name>>
            /\ c.step = "webp" =>
                 /\ ReadsOutputOf(j, "resize")
                 /\ c.src = <<"exports", "resize", name>>
                 /\ c.dst = <<"exports", "webp", name>>
            /\ c.step = "optimize" =>
                 /\ ReadsOutputOf(j, "webp")
                 /\ c.src = <<"exports", "webp", name>>
                 /\ c.dst = <<"exports", "draco", name>>

\* the optimize step of the second file has succeeded
C14_Witness ==
    \E j \in 1..Len(calls) :
        calls[j].file = 2 /\ calls[j].step = "optimize" /\ calls[j].status = "ok"

----------------------------------------------------------------------------

(* C15 *)

\* position of a state of the run in the order Idle, Discovering,
\* ProcessingFiles, Summarizing, Done; the end of the process by an uncaught
\* exception is ranked with Done
Rank(p) ==
    CASE p = "Idle" -> 1
      [] p = "Discovering" -> 2
      [] p = "ProcessingFiles" -> 3
      [] p = "Summarizing" -> 4
      [] p \in {"Done", "Aborted"} -> 5

\* the process has exited
Ended == pc \in {"Done", "Aborted"}

\* C15: the run moves through its states in the order Idle, Discovering,
\* ProcessingFiles, Summarizing, Done; as long as external processes terminate
\* it does not stop before its end; a run that discovered at least one file has
\* passed through Summarizing exactly once when it ends; and while an external
\* process is running the run has not ended and no other step is started.
C15_Lifecycle ==
    /\ \A n \in 1..(Len(trail) - 1) : Rank(trail[n]) < Rank(trail[n+1])
    /\ Ended \/ ENABLED Next
    /\ (Ended /\ K >= 1) => Cardinality({n \in 1..Len(trail) : trail[n] = "Summarizing"}) = 1
    /\ waiting => ~Ended /\ Cardinality(running) = 1

----------------------------------------------------------------------------

(* C16 *)

\* the latest invocation, when run_command returned False for it
LastFailed ==
    calls # <<>> /\ calls[Len(calls)].status \in {"failed", "unavailable"}

\* C16 as claimed: every failed step, whether the tool exited non-zero or was
\* unavailable, has reported its command, a return code and the captured
\* stdout and stderr.
C16_EveryFailureReportsCode ==
    LastFailed =>
        /\ report.command
        /\ report.returncode # NoExit
        /\ report.printed = report.captured

\* C16, amended: every step for which run_command returned False has had its
\* command printed.  When the tool exited non-zero the report holds that return
\* code and each captured stream that is not empty; when the tool was not
\* found the report holds the not-found message, and no return code and no
\* stream.
C16_FailureReport ==
    LastFailed =>
        LET c == calls[Len(calls)]
        IN  /\ report.command
            /\ c.status = "failed" =>
                 /\ c.rc # 0
                 /\ report.returncode = c.rc
                 /\ report.printed = report.captured
                 /\ ~report.notfound
            /\ c.status = "unavailable" =>
                 /\ report.notfound
                 /\ report.returncode = NoExit
                 /\ report.printed = {}

\* the run went on to the second file after a first file that failed with
\* something on stderr, and the tool was then not found
C16_Witness ==
    /\ Len(calls) >= 2
    /\ calls[1].status = "failed"
    /\ calls[Len(calls)].file = 2
    /\ calls[Len(calls)].status = "unavailable"
    /\ report.notfound

----------------------------------------------------------------------------

(* C17 *)

\* C17: while the files are processed, successful + failed is the number of
\* files process_glb_file has returned for and never exceeds the number of
\* discovered files; no counter ever decreases; and each return adds one to
\* exactly one of the two counters, nothing else changing them.
C17_Counters ==
    [][ /\ successful' + failed' = Len(results')
        /\ successful' + failed' <= Len(glb_files')
        /\ successful' >= successful
        /\ failed' >= failed
        /\ IF Len(results') = Len(results) + 1
           THEN /\ pc = "ProcessingFiles"
                /\ (successful' + failed') = (successful + failed) + 1
                /\ successful' = successful + 1 <=> results'[Len(results')]
                /\ failed' = failed + 1 <=> ~results'[Len(results')]
           ELSE /\ results' = results
                /\ successful' = successful
                /\ failed' = failed
      ]_vars

\* the second file is being processed after the first was counted as failed
C17_Witness ==
    /\ pc = "ProcessingFiles"
    /\ idx = 2
    /\ waiting
    /\ failed = 1
    /\ successful = 0

----------------------------------------------------------------------------
(* C18 *)

\* C18: the run leaves the imports directory and, once discovery is over, the
\* discovered list as they are; every invocation writes under exports and
\* reads what it does not write; and no two invocations of the run have the
\* same output path.
C18_Frame ==
    [][ /\ entries' = entries
        /\ importsKind' = importsKind
        /\ pc \notin {"Idle", "Discovering"} => glb_files' = glb_files
        /\ \A j \in 1..Len(calls') :
             /\ calls'[j].dst[1] = "exports"
             /\ calls'[j].dst # calls'[j].src
             /\ \A k \in 1..Len(calls') : calls'[j].dst = calls'[k].dst => j = k
        /\ \A q \in outputs' : q[1] = "exports"
      ]_vars

\* six invocations over two files, each with its own output path
C18_Witness ==
    /\ Len(calls) = 6
    /\ Cardinality({calls[j].dst : j \in 1..Len(calls)}) = 6
    /\ Cardinality(outputs) = 6

----------------------------------------------------------------------------
(* C19 *)

\* the tool was not found at any invocation of the run so far
ToolNeverFound == \A j \in 1..Len(calls) : calls[j].status = "unavailable"

----------------------------------------------------------------------------

TypeOK ==
    /\ pc \in {"Idle", "Discovering", "ProcessingFiles", "Summarizing", "Done", "Aborted"}
    /\ step \in Steps \cup {"none", "mkdir"}
    /\ Cardinality(running) <= Len(calls)

====
